---- MODULE Spec2Model ----
(***************************************************************************)
(* Model of src/api_bridge.py: the import-time bootstrap of the Flask API  *)
(* bridge.  The module's top-level statements run in order (logging setup, *)
(* logger, Flask app, cross-origin policy, Config class body); afterwards  *)
(* the process logs records through the configured logger, serves          *)
(* requests through the registered cross-origin hook, and its environment  *)
(* may change.                                                             *)
(*                                                                         *)
(* Strings are sequences of one-character strings so that str.lower(),     *)
(* int(), re.match and string equality are computed character by           *)
(* character.                                                              *)
(***************************************************************************)
EXTENDS Integers, Sequences, FiniteSets, TLC

VARIABLES
    pc,                 \* the top-level statement about to run, "done" or "failed"
    environ,            \* os.environ: function from variable name to string
    root,               \* logging root logger: [level, handlers]
    basicConfigCalls,   \* number of logging.basicConfig calls made so far
    logger,             \* module global `logger`: << >> unbound, else [name, level]
    app,                \* module global `app`: FALSE until Flask(__name__) ran
    cors,               \* resources registered by CORS(app, ...): seq of [pattern, options]
    Config,             \* namespace of class Config: function from attribute name to value
    lastRecord,         \* the LogRecord of the latest logger call, << >> if none
    emitted,            \* what the root handler wrote for lastRecord, << >> if nothing
    request,            \* the latest request served: [path, origin], << >> if none
    response            \* Access-Control-Allow-Origin values of the latest response

vars == <<pc, environ, root, basicConfigCalls, logger, app, cors, Config,
          lastRecord, emitted, request, response>>

-----------------------------------------------------------------------------
(* Bounds of the model                                                     *)

MaxEnvLen == 4          \* longest generated FLASK_DEBUG value
MaxPathLen == 5         \* longest generated request path after the leading "/"

-----------------------------------------------------------------------------
(* Strings                                                                 *)

None == << >>

ascii_uppercase == <<"A", "B", "C", "D", "E", "F", "G", "H", "I", "J", "K", "L", "M",
                     "N", "O", "P", "Q", "R", "S", "T", "U", "V", "W", "X", "Y", "Z">>

ascii_lowercase == <<"a", "b", "c", "d", "e", "f", "g", "h", "i", "j", "k", "l", "m",
                     "n", "o", "p", "q", "r", "s", "t", "u", "v", "w", "x", "y", "z">>

\* str.lower(): each upper-case letter is replaced by its lower-case letter.
lower(s) ==
    [i \in DOMAIN s |->
        IF \E k \in DOMAIN ascii_uppercase : ascii_uppercase[k] = s[i]
        THEN ascii_lowercase[CHOOSE k \in DOMAIN ascii_uppercase : ascii_uppercase[k] = s[i]]
        ELSE s[i]]

\* All strings over alphabet `chars` of length at most n.
StringsUpTo(chars, n) == UNION {[1..k -> chars] : k \in 0..n}

-----------------------------------------------------------------------------
(* Environment                                                             *)

FLASK_DEBUG == "FLASK_DEBUG"
PORT_VAR == "PORT"

\* Python values whose type matters are tagged with it.
PyInt(n) == [type |-> "int", int |-> n]
PyStr(s) == [type |-> "str", str |-> s]

\* os.getenv(key, default)
getenv(env, key, default) == IF key \in DOMAIN env THEN env[key] ELSE default

str_False == <<"F", "a", "l", "s", "e">>
str_true == <<"t", "r", "u", "e">>

\* Config.DEBUG compared without lower-casing the value.
DEBUG_expr_case_sensitive(env) == getenv(env, FLASK_DEBUG, str_False) = str_true

\* The expression assigned to Config.DEBUG.
DEBUG_expr(env) == lower(getenv(env, FLASK_DEBUG, str_False)) = str_true

-----------------------------------------------------------------------------
(* int()                                                                   *)

digits == <<"0", "1", "2", "3", "4", "5", "6", "7", "8", "9">>

IsDigit(c) == \E k \in DOMAIN digits : digits[k] = c

DigitValue(c) == (CHOOSE k \in DOMAIN digits : digits[k] = c) - 1

RECURSIVE DecimalValue(_)
DecimalValue(s) ==
    IF s = << >> THEN 0
    ELSE 10 * DecimalValue(SubSeq(s, 1, Len(s) - 1)) + DigitValue(s[Len(s)])

RECURSIVE strip(_)
strip(s) ==
    IF s = << >> THEN s
    ELSE IF Head(s) = " " THEN strip(Tail(s))
    ELSE IF s[Len(s)] = " " THEN strip(SubSeq(s, 1, Len(s) - 1))
    ELSE s

\* int() that hands its argument back unconverted.
int_unconverted(x) == [raised |-> FALSE, value |-> x]

\* int(x): an int is returned as is; a string is stripped of surrounding
\* whitespace, may carry one sign, and must then be a non-empty run of
\* decimal digits, otherwise ValueError is raised.
int(x) ==
    IF x.type = "int" THEN [raised |-> FALSE, value |-> x]
    ELSE LET s == strip(x.str)
             signed == s # << >> /\ Head(s) \in {"+", "-"}
             body == IF signed THEN Tail(s) ELSE s
             magnitude == DecimalValue(body)
         IN  IF body # << >> /\ \A i \in DOMAIN body : IsDigit(body[i])
             THEN [raised |-> FALSE,
                   value |-> PyInt(IF signed /\ Head(s) = "-" THEN 0 - magnitude ELSE magnitude)]
             ELSE [raised |-> TRUE, value |-> x]

\* Default of the port variable when it is absent from the environment.
DefaultPort == 5000

\* The argument of int() in the PORT declaration: the port variable of the
\* environment, or the default.
PORT_arg(env) ==
    IF PORT_VAR \in DOMAIN env THEN PyStr(env[PORT_VAR]) ELSE PyInt(DefaultPort)

-----------------------------------------------------------------------------
(* logging: what the standard library does with the configuration of      *)
(* logging.basicConfig and with a logger obtained from logging.getLogger.  *)
(* The root logger is taken to have no handler before basicConfig runs.    *)

logging_NOTSET == 0
logging_DEBUG == 10
logging_INFO == 20
logging_WARNING == 30
logging_ERROR == 40
logging_CRITICAL == 50

Levels == {logging_DEBUG, logging_INFO, logging_WARNING, logging_ERROR, logging_CRITICAL}

getLevelName(level) ==
    CASE level = logging_DEBUG -> "DEBUG"
      [] level = logging_INFO -> "INFO"
      [] level = logging_WARNING -> "WARNING"
      [] level = logging_ERROR -> "ERROR"
      [] level = logging_CRITICAL -> "CRITICAL"

Field(name) == [kind |-> "field", text |-> name]
Literal(text) == [kind |-> "literal", text |-> text]

\* A format string that puts the module before the severity.
LOG_FORMAT_reordered ==
    <<Field("asctime"), Literal(" - "), Field("module"), Literal(" - "),
      Field("levelname"), Literal(" - "), Field("message")>>

\* format='%(asctime)s - %(levelname)s - %(module)s - %(message)s'
LOG_FORMAT ==
    <<Field("asctime"), Literal(" - "), Field("levelname"), Literal(" - "),
      Field("module"), Literal(" - "), Field("message")>>

\* level=logging.DEBUG instead of logging.INFO
LOG_LEVEL_debug == logging_DEBUG

\* level=logging.INFO
LOG_LEVEL == logging_INFO

\* The root logger of a fresh interpreter: level WARNING, no handler.
RootAtStart == [level |-> logging_WARNING, handlers |-> << >>]

\* logging.basicConfig(level=..., format=...): does nothing if the root
\* logger already has a handler; otherwise adds one stream handler with a
\* formatter for `format` and sets the root level.
basicConfig(r, level, format) ==
    IF r.handlers # << >> THEN r
    ELSE [level |-> level,
          handlers |-> <<[level |-> logging_NOTSET, formatter |-> format]>>]

\* Logger.getEffectiveLevel(): the logger's own level unless NOTSET, else
\* its parent's (the root logger's).
getEffectiveLevel(lg, r) == IF lg.level # logging_NOTSET THEN lg.level ELSE r.level

\* Logger.isEnabledFor(level)
isEnabledFor(lg, r, level) == level >= getEffectiveLevel(lg, r)

\* Formatter.formatMessage(record): the format string with each %(name)s
\* replaced by the record's attribute of that name.
formatMessage(format, record) ==
    [i \in DOMAIN format |->
        IF format[i].kind = "field"
        THEN [kind |-> "field", name |-> format[i].text, text |-> record[format[i].text]]
        ELSE [kind |-> "literal", name |-> "", text |-> format[i].text]]

\* Logger.callHandlers(record): the record propagates to the root logger's
\* handlers; each handler whose level admits the record writes one line.
callHandlers(r, record) ==
    LET admitted == SelectSeq(r.handlers, LAMBDA h : record.levelno >= h.level)
    IN  [i \in DOMAIN admitted |-> formatMessage(admitted[i].formatter, record)]

\* What logger.log(level, ...) writes.
handle(lg, r, record) ==
    IF isEnabledFor(lg, r, record.levelno) THEN callHandlers(r, record) ELSE << >>

-----------------------------------------------------------------------------
(* Cross-origin policy: CORS(app, resources={pattern: {"origins": [...]}}) *)
(* The operators below follow what flask_cors does with the arguments of   *)
(* that call.  The keys of `resources` are regular expressions matched     *)
(* against the request path with re.match; the origins are compared with   *)
(* the request's Origin header.  flask_cors releases differ in whether the *)
(* path is matched ignoring case; the request paths of this model are in   *)
(* lower case, where the releases agree.                                   *)

ORIGIN_PROD ==
    <<"h", "t", "t", "p", "s", ":", "/", "/", "e", "v", "o", "l", "u", "t", "i", "o", "n",
      "-", "e", "c", "o", "s", "y", "s", "t", "e", "m", ".", "w", "e", "b", ".", "a", "p", "p">>

ORIGIN_LOCAL ==
    <<"h", "t", "t", "p", ":", "/", "/", "l", "o", "c", "a", "l", "h", "o", "s", "t", ":",
      "5", "0", "0", "0">>

\* r"/api/*"
API_PATTERN == <<"/", "a", "p", "i", "/", "*">>

\* An allowlist that admits the local development origin only in debug mode.
ORIGINS_debug_only ==
    IF DEBUG_expr(environ) THEN <<ORIGIN_PROD, ORIGIN_LOCAL>> ELSE <<ORIGIN_PROD>>

\* "origins": ["https://evolution-ecosystem.web.app", "http://localhost:5000"]
ORIGINS == <<ORIGIN_PROD, ORIGIN_LOCAL>>

\* An allowlist that lets every origin in.
RESOURCES_any_origin == <<[pattern |-> API_PATTERN, origins |-> <<<<".", "*">>>>]>>

\* resources={r"/api/*": {"origins": [...]}}
RESOURCES == <<[pattern |-> API_PATTERN, origins |-> ORIGINS]>>

\* Options a resource gets when the call does not give them.
DEFAULT_OPTIONS == [always_send |-> TRUE, send_wildcard |-> FALSE]

common_regex_chars == {"*", "\\", "]", "?", "$", "^", "[", "(", ")"}

\* probably_regex(s): s holds a character that is common in regular expressions.
probably_regex(s) == \E i \in DOMAIN s : s[i] \in common_regex_chars

\* re.compile for the patterns in use: a character, or a character followed
\* by "*" (zero or more repetitions); "." stands for any character.
RECURSIVE re_compile(_)
re_compile(p) ==
    IF p = << >> THEN << >>
    ELSE IF Len(p) >= 2 /\ p[2] = "*"
         THEN <<[char |-> p[1], star |-> TRUE]>> \o re_compile(SubSeq(p, 3, Len(p)))
         ELSE <<[char |-> p[1], star |-> FALSE]>> \o re_compile(Tail(p))

CharMatches(item, c) == item.char = "." \/ item.char = c

\* Does some prefix of s match the compiled pattern?
RECURSIVE MatchPrefix(_, _)
MatchPrefix(items, s) ==
    IF items = << >> THEN TRUE
    ELSE IF Head(items).star
         THEN \/ MatchPrefix(Tail(items), s)
              \/ s # << >> /\ CharMatches(Head(items), Head(s)) /\ MatchPrefix(items, Tail(s))
         ELSE s # << >> /\ CharMatches(Head(items), Head(s)) /\ MatchPrefix(Tail(items), Tail(s))

\* re.match(pattern, s, flags=re.IGNORECASE): the pattern must match at the
\* start of s; it need not reach the end of s.
re_match(pattern, s) == MatchPrefix(re_compile(lower(pattern)), lower(s))

\* try_match that compares the strings as they are.
try_match_case_sensitive(value, pattern) ==
    IF probably_regex(pattern) THEN re_match(pattern, value)
    ELSE value = pattern

\* try_match(value, pattern): a regular expression is matched ignoring case,
\* any other string is compared ignoring case.
try_match(value, pattern) ==
    IF probably_regex(pattern) THEN re_match(pattern, value)
    ELSE lower(value) = lower(pattern)

try_match_any(value, patterns) == \E i \in DOMAIN patterns : try_match(value, patterns[i])

Range(f) == {f[i] : i \in DOMAIN f}

\* get_cors_origins(options, request_origin): the values for the
\* Access-Control-Allow-Origin header, the empty set for none.
get_cors_origins(options, request_origin) ==
    LET origins == options.origins
        wildcard == <<".", "*">> \in Range(origins)
    IN  IF request_origin # << >>
        THEN IF wildcard /\ options.send_wildcard THEN {<<"*">>}
             ELSE IF try_match_any(request_origin, origins) THEN {request_origin}
             ELSE {}
        ELSE IF options.always_send
             THEN IF wildcard THEN {<<"*">>}
                  ELSE {origins[i] : i \in {j \in DOMAIN origins : ~probably_regex(origins[j])}}
             ELSE {}

\* A hook that applies the first resource to every path.
cors_after_request_any_path(resources, path, origin) ==
    get_cors_origins(resources[1].options, origin)

\* The after-request hook: the options of the first resource whose pattern
\* matches the request path decide the headers; no match, no headers.
cors_after_request(resources, path, origin) ==
    LET matching == {i \in DOMAIN resources : try_match(path, resources[i].pattern)}
    IN  IF matching = {} THEN {}
        ELSE LET first == CHOOSE i \in matching : \A j \in matching : i <= j
             IN  get_cors_origins(resources[first].options, origin)

\* parse_resources(resources): each pattern with its options, the defaults
\* filled in.
parse_resources(resources) ==
    [i \in DOMAIN resources |->
        [pattern |-> resources[i].pattern,
         options |-> [origins |-> resources[i].origins,
                      always_send |-> DEFAULT_OPTIONS.always_send,
                      send_wildcard |-> DEFAULT_OPTIONS.send_wildcard]]]

-----------------------------------------------------------------------------
(* Inputs                                                                  *)

\* An optional string: {} for absent, {s} for the string s.
Optional(S) == {{}} \cup {{s} : s \in S}

\* os.environ with FLASK_DEBUG = d and the port variable = p (both optional).
MakeEnv(d, p) ==
    [k \in (IF d = {} THEN {} ELSE {FLASK_DEBUG}) \cup (IF p = {} THEN {} ELSE {PORT_VAR}) |->
        IF k = FLASK_DEBUG THEN CHOOSE v \in d : TRUE ELSE CHOOSE v \in p : TRUE]

DebugAlphabet == {"t", "T", "r", "R", "u", "U", "e", "E"}

\* Values of FLASK_DEBUG beyond the generated ones.
NamedDebugValues ==
    {<<"f", "a", "l", "s", "e">>, <<"F", "a", "l", "s", "e">>, <<"1">>, <<"y", "e", "s">>,
     <<" ", "t", "r", "u", "e", " ">>, <<"t", "r", "u", "e", " ">>, <<" ", "T", "R", "U", "E">>,
     <<"t", "r", "u", "e", "1">>}

AllDebugValues == StringsUpTo(DebugAlphabet, MaxEnvLen) \cup NamedDebugValues

FewDebugValues ==
    {<< >>, <<"t", "r", "u", "e">>, <<"T", "r", "u", "E">>, <<"f", "a", "l", "s", "e">>,
     <<" ", "t", "r", "u", "e", " ">>, <<"1">>}

PortValues == {<<"8", "0", "8", "0">>, <<" ", "-", "1", " ">>, <<"a", "b", "c">>, << >>}

PathAlphabet == {"/", "a", "p", "i", "x"}

\* Request paths: "/" followed by at most MaxPathLen characters.
Paths == {<<"/">> \o t : t \in StringsUpTo(PathAlphabet, MaxPathLen)}

upper(s) ==
    [i \in DOMAIN s |->
        IF \E k \in DOMAIN ascii_lowercase : ascii_lowercase[k] = s[i]
        THEN ascii_uppercase[CHOOSE k \in DOMAIN ascii_lowercase : ascii_lowercase[k] = s[i]]
        ELSE s[i]]

\* Origin headers: absent (the empty string), the allowlisted origins, and
\* look-alikes of them.
RequestOrigins ==
    {<< >>, ORIGIN_PROD, ORIGIN_LOCAL,
     upper(ORIGIN_PROD),
     SubSeq(ORIGIN_LOCAL, 1, 7) \o upper(SubSeq(ORIGIN_LOCAL, 8, Len(ORIGIN_LOCAL))),
     ORIGIN_LOCAL \o <<"0">>,
     ORIGIN_LOCAL \o <<"/">>,
     ORIGIN_LOCAL \o <<".", "e", "v", "i", "l", ".", "e", "x", "a", "m", "p", "l", "e">>,
     SubSeq(ORIGIN_LOCAL, 1, Len(ORIGIN_LOCAL) - 1),
     <<"h", "t", "t", "p", "s">> \o SubSeq(ORIGIN_LOCAL, 5, Len(ORIGIN_LOCAL)),
     <<"h", "t", "t", "p">> \o SubSeq(ORIGIN_PROD, 6, Len(ORIGIN_PROD)),
     <<"h", "t", "t", "p", "s", ":", "/", "/", "e", "v", "i", "l", ".", "e", "x", "a", "m", "p", "l", "e">>,
     <<"n", "u", "l", "l">>}

Times == {"2026-01-01 00:00:00,000", "2026-01-01 00:00:01,500"}
Messages == {"started", "request failed"}

-----------------------------------------------------------------------------
(* The module's top-level statements                                       *)

\* The statements with the Flask app created before logging is set up.
Statements_app_first ==
    <<"Flask", "basicConfig", "getLogger", "CORS", "Config.DEBUG", "Config.PORT">>

\* The top-level statements in source order.
Statements ==
    <<"basicConfig", "getLogger", "Flask", "CORS", "Config.DEBUG", "Config.PORT">>

\* The statement that runs after stmt, "done" after the last one.
After(stmt) ==
    LET i == CHOOSE k \in DOMAIN Statements : Statements[k] = stmt
    IN  IF i = Len(Statements) THEN "done" ELSE Statements[i + 1]

StartState(env) ==
    /\ pc = Statements[1]
    /\ environ = env
    /\ root = RootAtStart
    /\ basicConfigCalls = 0
    /\ logger = None
    /\ app = FALSE
    /\ cors = None
    /\ Config = None
    /\ lastRecord = None
    /\ emitted = None
    /\ request = None
    /\ response = {}

\* logging.basicConfig(level=logging.INFO, format=...)
ConfigureLogging ==
    /\ pc = "basicConfig"
    /\ root' = basicConfig(root, LOG_LEVEL, LOG_FORMAT)
    /\ basicConfigCalls' = basicConfigCalls + 1
    /\ pc' = After(pc)
    /\ UNCHANGED <<environ, logger, app, cors, Config, lastRecord, emitted, request, response>>

\* logger = logging.getLogger(__name__)
GetLogger ==
    /\ pc = "getLogger"
    /\ logger' = [name |-> "api_bridge", level |-> logging_NOTSET]
    /\ pc' = After(pc)
    /\ UNCHANGED <<environ, root, basicConfigCalls, app, cors, Config, lastRecord, emitted,
                   request, response>>

\* app = Flask(__name__)
CreateApp ==
    /\ pc = "Flask"
    /\ app' = TRUE
    /\ pc' = After(pc)
    /\ UNCHANGED <<environ, root, basicConfigCalls, logger, cors, Config, lastRecord, emitted,
                   request, response>>

\* CORS(app, resources={...})
RegisterCORS ==
    /\ pc = "CORS"
    /\ cors' = parse_resources(RESOURCES)
    /\ pc' = After(pc)
    /\ UNCHANGED <<environ, root, basicConfigCalls, logger, app, Config, lastRecord, emitted,
                   request, response>>

\* DEBUG evaluated again whenever the environment is looked at after import.
ConfigDEBUG_reevaluated ==
    /\ pc \in {"Config.DEBUG", "done"}
    /\ Config' = [k \in DOMAIN Config \cup {"DEBUG"} |->
                    IF k = "DEBUG" THEN DEBUG_expr(environ) ELSE Config[k]]
    /\ pc' = IF pc = "done" THEN pc ELSE After(pc)
    /\ UNCHANGED <<environ, root, basicConfigCalls, logger, app, cors, lastRecord, emitted,
                   request, response>>

\* class Config: DEBUG = os.getenv('FLASK_DEBUG', 'False').lower() == 'true'
ConfigDEBUG ==
    /\ pc = "Config.DEBUG"
    /\ Config' = Config @@ ("DEBUG" :> DEBUG_expr(environ))
    /\ pc' = After(pc)
    /\ UNCHANGED <<environ, root, basicConfigCalls, logger, app, cors, lastRecord, emitted,
                   request, response>>

\* class Config: PORT = int(os...); if int() raises, the class body is
\* abandoned, Config is never bound and the import fails.
ConfigPORT ==
    /\ pc = "Config.PORT"
    /\ LET r == int(PORT_arg(environ))
       IN  IF r.raised
           THEN Config' = None /\ pc' = "failed"
           ELSE Config' = Config @@ ("PORT" :> r.value) /\ pc' = After(pc)
    /\ UNCHANGED <<environ, root, basicConfigCalls, logger, app, cors, lastRecord, emitted,
                   request, response>>

Import == ConfigureLogging \/ GetLogger \/ CreateApp \/ RegisterCORS \/ ConfigDEBUG \/ ConfigPORT

-----------------------------------------------------------------------------
(* After import                                                            *)

\* A call logger.log(level, message) made by the running process.
Log(level, asctime, message) ==
    /\ pc = "done"
    /\ logger # None
    /\ LET record == [levelno |-> level, levelname |-> getLevelName(level),
                      asctime |-> asctime, module |-> "api_bridge", message |-> message]
       IN  /\ lastRecord' = record
           /\ emitted' = handle(logger, root, record)
    /\ UNCHANGED <<pc, environ, root, basicConfigCalls, logger, app, cors, Config, request,
                   response>>

\* The environment variable FLASK_DEBUG is set, altered or unset (d = {}).
PutEnv(d) ==
    /\ pc = "done"
    /\ environ' = [k \in (DOMAIN environ \ {FLASK_DEBUG}) \cup (IF d = {} THEN {} ELSE {FLASK_DEBUG}) |->
                     IF k = FLASK_DEBUG THEN CHOOSE v \in d : TRUE ELSE environ[k]]
    /\ environ' # environ
    /\ UNCHANGED <<pc, root, basicConfigCalls, logger, app, cors, Config, lastRecord, emitted,
                   request, response>>

\* The app takes a request; the cross-origin hook sets the response's
\* Access-Control-Allow-Origin values.
HandleRequest(path, origin) ==
    /\ pc = "done"
    /\ app
    /\ request = None
    /\ request' = [path |-> path, origin |-> origin]
    /\ response' = IF cors = None THEN {} ELSE cors_after_request(cors, path, origin)
    /\ UNCHANGED <<pc, environ, root, basicConfigCalls, logger, app, cors, Config, lastRecord,
                   emitted>>

\* The response goes out and the app is ready for the next request.
SendResponse ==
    /\ pc = "done"
    /\ request # None
    /\ request' = None
    /\ response' = {}
    /\ UNCHANGED <<pc, environ, root, basicConfigCalls, logger, app, cors, Config, lastRecord,
                   emitted>>

EmitLog == \E level \in Levels, asctime \in Times, message \in Messages : Log(level, asctime, message)

ChangeEnv == \E d \in Optional(FewDebugValues) : PutEnv(d)

Serve ==
    /\ request = None
    /\ \E path \in Paths, origin \in RequestOrigins : HandleRequest(path, origin)

-----------------------------------------------------------------------------
(* Specifications                                                          *)

\* The process: import, then logging and changes of the environment.
Init == \E d \in Optional(FewDebugValues), p \in Optional(PortValues) : StartState(MakeEnv(d, p))

Next == Import \/ EmitLog \/ ChangeEnv

Spec == Init /\ [][Next]_vars

\* Import over every generated value of FLASK_DEBUG.
InitDebug ==
    \E d \in Optional(AllDebugValues), p \in Optional({<<"8", "0", "8", "0">>, <<"a", "b", "c">>}) :
        StartState(MakeEnv(d, p))

NextDebug == Import

SpecDebug == InitDebug /\ [][NextDebug]_vars

\* Import, then requests through the cross-origin hook.
InitCors ==
    \E d \in Optional({<<"t", "r", "u", "e">>}), p \in {{<<"8", "0", "8", "0">>}, {<<"a", "b", "c">>}} :
        StartState(MakeEnv(d, p))

NextCors == Import \/ Serve \/ SendResponse

SpecCors == InitCors /\ [][NextCors]_vars

-----------------------------------------------------------------------------
(* Properties                                                              *)

SameLetter(c, d) ==
    \/ c = d
    \/ \E k \in DOMAIN ascii_uppercase : {c, d} = {ascii_uppercase[k], ascii_lowercase[k]}

EqualIgnoringCase(a, b) ==
    /\ Len(a) = Len(b)
    /\ \A i \in DOMAIN a : SameLetter(a[i], b[i])

Allowlist == {ORIGIN_PROD, ORIGIN_LOCAL}

\* The path lies under /api/.
UnderApi(path) == Len(path) >= 5 /\ SubSeq(path, 1, 5) = <<"/", "a", "p", "i", "/">>

\* The response grants the request's origin access: its
\* Access-Control-Allow-Origin names that origin, or every origin.
Permitted == request.origin \in response \/ <<"*">> \in response

\* C1: once the class body has assigned it, Config.DEBUG is true if and only
\* if FLASK_DEBUG is set and its value is the word "true" in some mix of
\* letter cases; unset, empty and every other value give false.
C1_DebugIffTrueIgnoringCase ==
    "DEBUG" \in DOMAIN Config =>
        Config.DEBUG = (/\ FLASK_DEBUG \in DOMAIN environ
                        /\ EqualIgnoringCase(environ[FLASK_DEBUG], str_true))

C1_Witness ==
    /\ "DEBUG" \in DOMAIN Config
    /\ Config.DEBUG
    /\ FLASK_DEBUG \in DOMAIN environ
    /\ environ[FLASK_DEBUG] = <<"T", "r", "U", "e">>

\* C2 as stated: a request to a path under /api/ is permitted if and only
\* if its Origin is exactly one of the two allowlisted origins.
C2_PermittedIffExactOrigin ==
    (request # None /\ UnderApi(request.path)) =>
        (Permitted <=> request.origin \in Allowlist)

\* C2 as amended: a request to a path under /api/ is permitted if and only
\* if its Origin equals one of the two allowlisted origins up to letter case.
C2_PermittedIffOriginIgnoringCase ==
    (request # None /\ UnderApi(request.path)) =>
        (Permitted <=> \E o \in Allowlist : EqualIgnoringCase(request.origin, o))

C2_Witness ==
    /\ request # None
    /\ request.path = <<"/", "a", "p", "i", "/", "x">>
    /\ request.origin = upper(ORIGIN_PROD)
    /\ Permitted

\* C3: a record passed to the logger is written if and only if its severity
\* is INFO or above.
C3_EmittedIffInfoOrAbove ==
    lastRecord # None => (emitted # None <=> lastRecord.levelno >= logging_INFO)

C3_Witness ==
    /\ lastRecord # None
    /\ lastRecord.levelno = logging_INFO
    /\ emitted # None

FieldsOf(line) ==
    LET fields == SelectSeq(line, LAMBDA item : item.kind = "field")
    IN  [i \in DOMAIN fields |-> <<fields[i].name, fields[i].text>>]

\* C4: every line written for a record carries exactly the record's
\* timestamp, severity, module and message, in this order.
C4_FourFieldsInOrder ==
    \A i \in DOMAIN emitted :
        FieldsOf(emitted[i]) = <<<<"asctime", lastRecord.asctime>>,
                                 <<"levelname", lastRecord.levelname>>,
                                 <<"module", lastRecord.module>>,
                                 <<"message", lastRecord.message>>>>

C4_Witness ==
    /\ Len(emitted) = 1
    /\ lastRecord.levelno = logging_ERROR
    /\ lastRecord.message = "request failed"

LoggingConfigured ==
    /\ basicConfigCalls = 1
    /\ root.level = logging_INFO
    /\ Len(root.handlers) = 1
    /\ root.handlers[1].formatter = LOG_FORMAT

\* C6: logging is set up exactly once, before the Flask app, the
\* cross-origin policy and Config exist, and once set up its level and
\* format never change.
C6_LoggerInitializedOnceFirst ==
    /\ [](basicConfigCalls <= 1)
    /\ []((app \/ cors # None \/ Config # None \/ pc = "done") => LoggingConfigured)
    /\ [][LoggingConfigured => (root' = root /\ basicConfigCalls' = basicConfigCalls)]_vars

C6_Witness ==
    /\ pc = "done"
    /\ LoggingConfigured
    /\ emitted # None

\* C7: the class body assigns Config.DEBUG from the value FLASK_DEBUG has
\* at that moment, and after the import no step changes Config.DEBUG,
\* whatever happens to FLASK_DEBUG.
C7_DebugFixedAfterImport ==
    /\ [][pc = "Config.DEBUG" =>
            Config'.DEBUG = (/\ FLASK_DEBUG \in DOMAIN environ
                             /\ EqualIgnoringCase(environ[FLASK_DEBUG], str_true))]_vars
    /\ [][pc = "done" =>
            /\ "DEBUG" \in DOMAIN Config'
            /\ Config'.DEBUG = Config.DEBUG]_vars

C7_Witness ==
    /\ pc = "done"
    /\ Config.DEBUG
    /\ FLASK_DEBUG \notin DOMAIN environ

\* C8: whatever the debug flag, the registered allowlist is the same two
\* origins, and a request to a path under /api/ from either of them is
\* permitted.
C8_AllowlistIndependentOfDebug ==
    /\ \A i \in DOMAIN cors : Range(cors[i].options.origins) = Allowlist
    /\ (request # None /\ UnderApi(request.path) /\ request.origin \in Allowlist) => Permitted

C8_Witness ==
    /\ pc = "done"
    /\ ~Config.DEBUG
    /\ request # None
    /\ UnderApi(request.path)
    /\ request.origin = ORIGIN_LOCAL
    /\ Permitted

\* C9: a request to a path that is not under /api/ is not permitted,
\* whatever its Origin.
C9_NothingOutsideApi ==
    (request # None /\ ~UnderApi(request.path)) => ~Permitted

====
